---- MODULE Spec2Model ----
(***************************************************************************)
(* The scrape engine of the ECR exporter: ECRCollector.Collect and the     *)
(* two pagination loops it drives (getAllRepositories,                     *)
(* getRepositoryImages), with the per-repository aggregation of            *)
(* collectRepositoryMetrics.  One invocation of Collect is a frame `run`;  *)
(* it advances one remote call at a time.  The registry is the             *)
(* environment: every remote call answers with an error or with a page.    *)
(*   client  the field of the collector                                    *)
(*   run     the frame of an invocation of Collect                         *)
(*   peer    the frame of a second invocation, running at the same time    *)
(*   tape    a registry that does not change: the answer it gave to each   *)
(*           request so far                                                *)
(*   last    the samples of the scrape before this one                     *)
(*   http    a request to the health handler and the response to it        *)
(***************************************************************************)
EXTENDS Integers, Sequences, FiniteSets, TLC

VARIABLES client, run, peer, tape, last, http

vars == <<client, run, peer, tape, last, http>>

(***************************************************************************)
(* Bounds of the model.                                                    *)
(***************************************************************************)
MaxRecords == 3
MaxPages == 2
IntBits == 4

(***************************************************************************)
(* Go values.  A pointer is the empty tuple (nil) or a one-element tuple.  *)
(***************************************************************************)
NIL == <<>>

Ptr(v) == <<v>>

Deref(p) == p[1]

MaxInt64 == 2 ^ (IntBits - 1) - 1

\* int64 arithmetic wraps around (two's complement of IntBits bits).
WrapInt64(x) == ((x + 2 ^ (IntBits - 1)) % (2 ^ IntBits)) - 2 ^ (IntBits - 1)

\* A float64 is kept as an exact quotient of two integers.
Float64(x) == [num |-> x, den |-> 1]

FloatDiv(a, b) == [num |-> a.num * b.den, den |-> a.den * b.num]

\* time.Time as whole seconds since the zero instant (year 1) of Go.
ZeroTime == 0

unixToInternal == 2

After(t, u) == t > u

IsZero(t) == t = ZeroTime

Unix(t) == t - unixToInternal

\* time.Since(start).Seconds(): what the clock may read at the end of a scrape.
Seconds == {0, 5}

(***************************************************************************)
(* The records of the registry API.                                        *)
(***************************************************************************)
RepoNames == {"a", "b"}

RepoUris == {"u"}

Repository == [RepositoryName : {NIL} \cup {Ptr(n) : n \in RepoNames},
               RepositoryUri : {NIL} \cup {Ptr(u) : u \in RepoUris}]

SizeVals == {1, MaxInt64 - 1}

PushVals == {ZeroTime, 3}

PullVals == {2}

ImageDetail == [ImageSizeInBytes : {NIL} \cup {Ptr(s) : s \in SizeVals},
                ImagePushedAt : {NIL} \cup {Ptr(t) : t \in PushVals},
                LastRecordedPullTime : {NIL} \cup {Ptr(t) : t \in PullVals}]

SeqsUpTo(S, n) == UNION {[1..k -> S] : k \in 0..n}

\* An answer of DescribeRepositories or DescribeImages.
ErrResponse == [err |-> TRUE, records |-> <<>>, NextToken |-> NIL]

Page(records, token) == [err |-> FALSE, records |-> records, NextToken |-> token]

(***************************************************************************)
(* Metric samples pushed to the sink.                                      *)
(***************************************************************************)
Metric(desc, value, labels) == [desc |-> desc, value |-> value, labels |-> labels]

(***************************************************************************)
(* collectRepositoryMetrics: the aggregation over the images of one        *)
(* repository.                                                             *)
(***************************************************************************)
\* The loop over the images: the sizes that are present, in order.
RECURSIVE Sizes(_)
Sizes(images) ==
    IF images = <<>> THEN <<>>
    ELSE (IF Head(images).ImageSizeInBytes # NIL
          THEN <<Deref(Head(images).ImageSizeInBytes)>>
          ELSE <<>>) \o Sizes(Tail(images))

\* The loop over the images: latestPush, starting from the zero time.
RECURSIVE LatestPush(_, _)
LatestPush(images, latestPush) ==
    IF images = <<>> THEN latestPush
    ELSE LET p == Head(images).ImagePushedAt
         IN  LatestPush(Tail(images),
                        IF p # NIL /\ After(Deref(p), latestPush)
                        THEN Deref(p) ELSE latestPush)

\* The loop over the images: latestPull, starting from the zero time.
RECURSIVE LatestPull(_, _)
LatestPull(images, latestPull) ==
    IF images = <<>> THEN latestPull
    ELSE LET p == Head(images).LastRecordedPullTime
         IN  LatestPull(Tail(images),
                        IF p # NIL /\ After(Deref(p), latestPull)
                        THEN Deref(p) ELSE latestPull)

\* sort.Slice(sizes, less) with less(i, j) = sizes[i] < sizes[j].
RECURSIVE SortInsert(_, _)
SortInsert(x, s) ==
    IF s = <<>> THEN <<x>>
    ELSE IF x < Head(s) THEN <<x>> \o s
    ELSE <<Head(s)>> \o SortInsert(x, Tail(s))

RECURSIVE SortSlice(_)
SortSlice(s) == IF s = <<>> THEN <<>> ELSE SortInsert(Head(s), SortSlice(Tail(s)))

\* var totalSize int64; for _, size := range sizes { totalSize += size }
RECURSIVE TotalSize(_, _)
TotalSize(sizes, totalSize) ==
    IF sizes = <<>> THEN totalSize
    ELSE TotalSize(Tail(sizes), WrapInt64(totalSize + Head(sizes)))

\* The three size metrics, pushed only when some image reports a size.
SizeMetrics(labels, sizes) ==
    IF Len(sizes) > 0
    THEN LET sorted == SortSlice(sizes)
             minSize == Float64(sorted[1])
             maxSize == Float64(sorted[Len(sorted)])
             avgSize == FloatDiv(Float64(TotalSize(sorted, 0)), Float64(Len(sorted)))
         IN  << Metric("imageSizeMin", minSize, labels),
                Metric("imageSizeMax", maxSize, labels),
                Metric("imageSizeAvg", avgSize, labels) >>
    ELSE <<>>

LatestPushMetric(labels, latestPush) ==
    IF ~IsZero(latestPush)
    THEN << Metric("latestPushTime", Float64(Unix(latestPush)), labels) >>
    ELSE <<>>

LatestPullMetric(labels, latestPull) ==
    IF ~IsZero(latestPull)
    THEN << Metric("latestPullTime", Float64(Unix(latestPull)), labels) >>
    ELSE <<>>

\* A variant of RepoMetrics that counts the images that report a size.
RepoMetricsSized(labels, images) ==
    << Metric("imageCount", Float64(Len(Sizes(images))), labels) >>
    \o (IF Len(images) = 0 THEN <<>>
        ELSE SizeMetrics(labels, Sizes(images))
             \o LatestPushMetric(labels, LatestPush(images, ZeroTime))
             \o LatestPullMetric(labels, LatestPull(images, ZeroTime)))

\* What collectRepositoryMetrics pushes once the images were fetched.
RepoMetrics(labels, images) ==
    << Metric("imageCount", Float64(Len(images)), labels) >>
    \o (IF Len(images) = 0 THEN <<>>
        ELSE SizeMetrics(labels, Sizes(images))
             \o LatestPushMetric(labels, LatestPush(images, ZeroTime))
             \o LatestPullMetric(labels, LatestPull(images, ZeroTime)))

(***************************************************************************)
(* The frame of one invocation of Collect.  pc is its position:            *)
(*   "idle"                 not invoked yet                                *)
(*   "getAllRepositories"   about to call DescribeRepositories             *)
(*   "range"                at the head of the loop over repos, index i    *)
(*   "getRepositoryImages"  about to call DescribeImages for repos[i]      *)
(*   "finalize"             about to push the two scrape metrics           *)
(*   "done"                 returned to the caller                         *)
(*   "panicked"             a nil pointer was dereferenced                 *)
(* deadline tells whether the deadline of ctx, the context that Collect    *)
(* makes for this invocation, has passed; fired is history, the frame in   *)
(* which it passed.                                                        *)
(* images is what getRepositoryImages returned last.                       *)
(* op, at, calls, pages, listErr, served and perRepo are history: the      *)
(* remote operation of the listing that is running or ran last, the index  *)
(* in repos it is for (0 for the repositories), the inputs and answers of  *)
(* its calls, whether DescribeRepositories answered with an error, the     *)
(* number of records the registry has returned to this invocation, and,    *)
(* for each record the loop is through with, the part of ch it filled, the *)
(* errors it added and how the fetch of its images ended.                  *)
(***************************************************************************)
NewFrame ==
    [pc |-> "idle", errorCount |-> 0, ch |-> <<>>, deadline |-> FALSE, fired |-> NIL,
     allRepos |-> <<>>, nextToken |-> NIL, repos |-> <<>>, i |-> 0,
     allImages |-> <<>>, images |-> <<>>,
     op |-> "none", at |-> 0, calls |-> <<>>, pages |-> <<>>,
     listErr |-> FALSE, served |-> 0, perRepo |-> <<>>]

\* A variant of CollectEnter in which the error counter lives on from one
\* invocation to the next.
CollectEnterKeepingCount(r) ==
    [NewFrame EXCEPT !.pc = "getAllRepositories", !.errorCount = r.errorCount,
                     !.op = "DescribeRepositories"]

\* Collect, up to the call of getAllRepositories.
CollectEnter(r) ==
    [NewFrame EXCEPT !.pc = "getAllRepositories", !.errorCount = 0,
                     !.op = "DescribeRepositories"]

\* A variant of CollectRepos that leaves the error of the listing uncounted.
CollectReposUncounted(r, repos, failed) ==
    IF failed
    THEN [r EXCEPT !.ch = Append(@, Metric("repoCount", Float64(0), <<>>)),
                   !.pc = "finalize"]
    ELSE [r EXCEPT !.ch = Append(@, Metric("repoCount", Float64(Len(repos)), <<>>)),
                   !.repos = repos,
                   !.i = 1,
                   !.pc = IF Len(repos) = 0 THEN "finalize" ELSE "range"]

\* A variant of CollectRepos that goes through the list from its end.
CollectReposReversed(r, repos, failed) ==
    IF failed
    THEN [r EXCEPT !.errorCount = @ + 1,
                   !.ch = Append(@, Metric("repoCount", Float64(0), <<>>)),
                   !.pc = "finalize"]
    ELSE [r EXCEPT !.ch = Append(@, Metric("repoCount", Float64(Len(repos)), <<>>)),
                   !.repos = [k \in DOMAIN repos |-> repos[Len(repos) + 1 - k]],
                   !.i = 1,
                   !.pc = IF Len(repos) = 0 THEN "finalize" ELSE "range"]

\* Collect, from the return of getAllRepositories to the loop over repos.
CollectRepos(r, repos, failed) ==
    IF failed
    THEN [r EXCEPT !.errorCount = @ + 1,
                   !.ch = Append(@, Metric("repoCount", Float64(0), <<>>)),
                   !.pc = "finalize"]
    ELSE [r EXCEPT !.ch = Append(@, Metric("repoCount", Float64(Len(repos)), <<>>)),
                   !.repos = repos,
                   !.i = 1,
                   !.pc = IF Len(repos) = 0 THEN "finalize" ELSE "range"]

\* input := &ecr.DescribeRepositoriesInput{NextToken: nextToken}
DescribeRepositoriesInput(r) == [NextToken |-> r.nextToken]

\* getAllRepositories leaves: its locals are gone.
ReturnFrom(r) == [r EXCEPT !.allRepos = <<>>, !.allImages = <<>>, !.nextToken = NIL]

\* A variant of GetAllRepositoriesStep that stops after one page.
GetAllRepositoriesStepOnePage(r, resp) ==
    LET called == [r EXCEPT !.calls = Append(@, DescribeRepositoriesInput(r)),
                            !.pages = Append(@, resp),
                            !.listErr = resp.err,
                            !.served = @ + Len(resp.records)]
    IN  IF resp.err
        THEN CollectRepos(ReturnFrom(called), <<>>, TRUE)
        ELSE CollectRepos(ReturnFrom(called), called.allRepos \o resp.records, FALSE)

\* One turn of the loop of getAllRepositories, given the answer of the remote.
GetAllRepositoriesStep(r, resp) ==
    LET called == [r EXCEPT !.calls = Append(@, DescribeRepositoriesInput(r)),
                            !.pages = Append(@, resp),
                            !.listErr = resp.err,
                            !.served = @ + Len(resp.records)]
    IN  IF resp.err
        THEN CollectRepos(ReturnFrom(called), <<>>, TRUE)
        ELSE IF resp.NextToken = NIL
        THEN CollectRepos(ReturnFrom(called), called.allRepos \o resp.records, FALSE)
        ELSE [called EXCEPT !.allRepos = @ \o resp.records,
                            !.nextToken = resp.NextToken]

\* A variant of NextRepo in which a failed fetch ends the loop.
NextRepoUnlessFailed(r) ==
    IF r.i < Len(r.repos) /\ ~(r.pages # <<>> /\ r.pages[Len(r.pages)].err)
    THEN [r EXCEPT !.i = @ + 1, !.pc = "range"]
    ELSE [r EXCEPT !.pc = "finalize"]

\* The loop over repos goes to its next turn, or ends.
NextRepo(r) ==
    IF r.i < Len(r.repos)
    THEN [r EXCEPT !.i = @ + 1, !.pc = "range"]
    ELSE [r EXCEPT !.pc = "finalize"]

\* History: the loop is through with repos[i]; `before` is the frame at the
\* head of that turn.
Through(before, r) ==
    LET fetch == IF r.op = "DescribeImages" /\ r.at = r.i
                 THEN (IF r.pages[Len(r.pages)].err THEN "err" ELSE "ok")
                 ELSE "none"
    IN  NextRepo([r EXCEPT !.perRepo = Append(@, [from |-> Len(before.ch),
                                                  to |-> Len(r.ch),
                                                  errors |-> r.errorCount - before.errorCount,
                                                  fetch |-> fetch])])

\* collectRepositoryMetrics, up to the call of getRepositoryImages.
CollectRepositoryMetricsEnter(r, repo) ==
    IF repo.RepositoryName = NIL
    THEN Through(r, [r EXCEPT !.errorCount = @ + 1])
    ELSE IF repo.RepositoryUri = NIL
    THEN Through(r, [r EXCEPT !.errorCount = @ + 1])
    ELSE [r EXCEPT !.pc = "getRepositoryImages", !.allImages = <<>>, !.nextToken = NIL,
                   !.images = <<>>,
                   !.op = "DescribeImages", !.at = r.i, !.calls = <<>>, !.pages = <<>>]

\* One turn of the loop over repos, up to the first remote call: the log line
\* dereferences repo.RepositoryName before collectRepositoryMetrics checks it.
RangeStep(r) ==
    LET repo == r.repos[r.i]
    IN  IF repo.RepositoryName = NIL
        THEN [r EXCEPT !.pc = "panicked"]
        ELSE CollectRepositoryMetricsEnter(r, repo)

\* A variant of DescribeImagesInput that never passes the continuation token.
DescribeImagesInputNoToken(r) ==
    [RepositoryName |-> r.repos[r.i].RepositoryName, NextToken |-> NIL]

\* input := &ecr.DescribeImagesInput{RepositoryName: &repoName, NextToken: nextToken}
DescribeImagesInput(r) ==
    [RepositoryName |-> r.repos[r.i].RepositoryName, NextToken |-> r.nextToken]

\* A variant of CollectImages that, after a failed fetch, labels the image
\* count with the name of the repository only.
CollectImagesNameOnly(r, labels, images, failed) ==
    IF failed
    THEN [r EXCEPT !.images = <<>>,
                   !.errorCount = @ + 1,
                   !.ch = Append(@, Metric("imageCount", Float64(0), <<labels[1]>>))]
    ELSE [r EXCEPT !.images = images,
                   !.ch = @ \o RepoMetrics(labels, images)]

\* collectRepositoryMetrics, from the return of getRepositoryImages.
CollectImages(r, labels, images, failed) ==
    IF failed
    THEN [r EXCEPT !.images = <<>>,
                   !.errorCount = @ + 1,
                   !.ch = Append(@, Metric("imageCount", Float64(0), labels))]
    ELSE [r EXCEPT !.images = images,
                   !.ch = @ \o RepoMetrics(labels, images)]

\* A variant of GetRepositoryImagesStep that, when a call fails, returns the
\* images of the pages fetched so far as if the listing had succeeded.
GetRepositoryImagesStepPartial(r, resp) ==
    LET repo == r.repos[r.i]
        labels == <<Deref(repo.RepositoryName), Deref(repo.RepositoryUri)>>
        called == [r EXCEPT !.calls = Append(@, DescribeImagesInput(r)),
                            !.pages = Append(@, resp),
                            !.served = @ + Len(resp.records)]
    IN  IF resp.err \/ resp.NextToken = NIL
        THEN Through(r, CollectImages(ReturnFrom(called), labels,
                                      called.allImages \o resp.records, FALSE))
        ELSE [called EXCEPT !.allImages = @ \o resp.records,
                            !.nextToken = resp.NextToken]

\* One turn of the loop of getRepositoryImages, given the answer of the remote.
GetRepositoryImagesStep(r, resp) ==
    LET repo == r.repos[r.i]
        labels == <<Deref(repo.RepositoryName), Deref(repo.RepositoryUri)>>
        called == [r EXCEPT !.calls = Append(@, DescribeImagesInput(r)),
                            !.pages = Append(@, resp),
                            !.served = @ + Len(resp.records)]
    IN  IF resp.err
        THEN Through(r, CollectImages(ReturnFrom(called), labels, <<>>, TRUE))
        ELSE IF resp.NextToken = NIL
        THEN Through(r, CollectImages(ReturnFrom(called), labels,
                                      called.allImages \o resp.records, FALSE))
        ELSE [called EXCEPT !.allImages = @ \o resp.records,
                            !.nextToken = resp.NextToken]

\* Collect, after the loop: the two scrape metrics.
Finalize(r, elapsed) ==
    [r EXCEPT !.ch = @ \o << Metric("scrapeErrors", Float64(r.errorCount), <<>>),
                            Metric("scrapeDuration", Float64(elapsed), <<>>) >>,
              !.pc = "done"]

(***************************************************************************)
(* The registry.  A remote call fails or answers with a page; the token of *)
(* the n-th page of a listing is n.  The bounds cap the pages of a listing *)
(* and the records (repositories and images) returned in one scrape.       *)
(***************************************************************************)
Tokens(n) == {NIL} \cup (IF n + 1 < MaxPages THEN {Ptr(n + 1)} ELSE {})

\* c.client.DescribeRepositories(ctx, input): is the context it is given done?
DescribeRepositoriesCtx(r) == r.deadline

\* c.client.DescribeImages(ctx, input): is the context it is given done?
DescribeImagesCtx(r) == r.deadline

\* A call whose context is done fails.
RepoResponses(r) ==
    IF DescribeRepositoriesCtx(r) THEN {ErrResponse}
    ELSE {ErrResponse} \cup
         {Page(recs, tok) : recs \in SeqsUpTo(Repository, MaxRecords - r.served),
                            tok \in Tokens(Len(r.calls))}

ImageResponses(r) ==
    IF DescribeImagesCtx(r) THEN {ErrResponse}
    ELSE {ErrResponse} \cup
         {Page(recs, tok) : recs \in SeqsUpTo(ImageDetail, MaxRecords - r.served),
                            tok \in Tokens(Len(r.calls))}

(***************************************************************************)
(* The actions.                                                            *)
(***************************************************************************)
Init ==
    /\ client \in {NIL, Ptr("ecr")}
    /\ run = NewFrame
    /\ peer = NewFrame
    /\ tape = <<>>
    /\ last = <<>>
    /\ http = <<>>

\* The registry of Prometheus invokes Collect.
Collect ==
    /\ run.pc \in {"idle", "done"}
    /\ run' = CollectEnter(run)
    /\ UNCHANGED <<client, peer, tape, last, http>>

\* c.client.DescribeRepositories(ctx, input) on a client that is there.
DescribeRepositories ==
    /\ run.pc = "getAllRepositories"
    /\ client # NIL
    /\ \E resp \in RepoResponses(run) : run' = GetAllRepositoriesStep(run, resp)
    /\ UNCHANGED <<client, peer, tape, last, http>>

\* A method of a nil *ecr.Client reads the fields of the client.
NilClient ==
    /\ run.pc \in {"getAllRepositories", "getRepositoryImages"}
    /\ client = NIL
    /\ run' = [run EXCEPT !.pc = "panicked"]
    /\ UNCHANGED <<client, peer, tape, last, http>>

Range ==
    /\ run.pc = "range"
    /\ run' = RangeStep(run)
    /\ UNCHANGED <<client, peer, tape, last, http>>

\* c.client.DescribeImages(ctx, input) on a client that is there.
DescribeImages ==
    /\ run.pc = "getRepositoryImages"
    /\ client # NIL
    /\ \E resp \in ImageResponses(run) : run' = GetRepositoryImagesStep(run, resp)
    /\ UNCHANGED <<client, peer, tape, last, http>>

SendFinal ==
    /\ run.pc = "finalize"
    /\ \E elapsed \in Seconds : run' = Finalize(run, elapsed)
    /\ UNCHANGED <<client, peer, tape, last, http>>

Next ==
    \/ Collect
    \/ DescribeRepositories
    \/ NilClient
    \/ Range
    \/ DescribeImages
    \/ SendFinal

Spec == Init /\ [][Next]_vars

(***************************************************************************)
(* Vocabulary of the properties.                                           *)
(***************************************************************************)
Valid(repo) == repo.RepositoryName # NIL /\ repo.RepositoryUri # NIL

Labels(repo) == <<Deref(repo.RepositoryName), Deref(repo.RepositoryUri)>>

PerRepoDescs ==
    {"imageCount", "imageSizeMin", "imageSizeMax", "imageSizeAvg",
     "latestPushTime", "latestPullTime"}

\* The samples of ch that belong to a set of descriptors.
Samples(ch, descs) == SelectSeq(ch, LAMBDA m : m.desc \in descs)

\* The records of a sequence of pages, one page after the other.
RECURSIVE Concat(_)
Concat(pages) ==
    IF pages = <<>> THEN <<>> ELSE Head(pages).records \o Concat(Tail(pages))

LastPage(r) == r.pages[Len(r.pages)]

\* The part of ch that the turn of the loop for repos[k] pushed.
Segment(r, k) == SubSeq(r.ch, r.perRepo[k].from + 1, r.perRepo[k].to)

(***************************************************************************)
(* C1: when DescribeRepositories fails during a scrape, the scrape pushes  *)
(* a repository-count of 0, counts exactly one error, which is the value   *)
(* of the final scrape-error-count, starts no listing of images and pushes *)
(* no per-repository metric.                                               *)
(***************************************************************************)
C1_ListFailure ==
    run.listErr =>
        /\ run.pc \in {"finalize", "done"}
        /\ run.op = "DescribeRepositories"
        /\ run.perRepo = <<>>
        /\ run.errorCount = 1
        /\ run.ch[1] = Metric("repoCount", Float64(0), <<>>)
        /\ Samples(run.ch, PerRepoDescs) = <<>>
        /\ run.pc = "finalize" => Len(run.ch) = 1
        /\ run.pc = "done" =>
              /\ Len(run.ch) = 3
              /\ run.ch[2] = Metric("scrapeErrors", Float64(1), <<>>)
              /\ run.ch[3].desc = "scrapeDuration"

\* A scrape ended after the second page of the repositories failed.
C1_Witness ==
    /\ run.pc = "done"
    /\ run.listErr
    /\ Len(run.pages) = 2
    /\ run.served > 0

(***************************************************************************)
(* C2: a repository whose listing of images fails gets exactly one         *)
(* image-count sample of value 0, labeled with its name and URI, and adds  *)
(* exactly 1 to the error counter; the loop goes on, so that every record  *)
(* of the list is gone through, and a repository whose fetch succeeds gets *)
(* the samples of its own images, whatever happened to the others.         *)
(***************************************************************************)
C2_FetchFailureIsolated ==
    /\ \A k \in 1..Len(run.perRepo) :
          Valid(run.repos[k]) =>
              /\ run.perRepo[k].fetch \in {"ok", "err"}
              /\ Segment(run, k) # <<>>
              /\ Segment(run, k)[1].desc = "imageCount"
              /\ \A n \in 1..Len(Segment(run, k)) :
                    /\ Segment(run, k)[n].labels = Labels(run.repos[k])
                    /\ Segment(run, k)[n].desc \in PerRepoDescs
              /\ run.perRepo[k].fetch = "err" =>
                    /\ run.perRepo[k].errors = 1
                    /\ Segment(run, k) =
                          << Metric("imageCount", Float64(0), Labels(run.repos[k])) >>
              /\ run.perRepo[k].fetch = "ok" => run.perRepo[k].errors = 0
    /\ (run.op = "DescribeImages" /\ Len(run.perRepo) >= run.at /\ ~LastPage(run).err) =>
          Segment(run, run.at) = RepoMetrics(Labels(run.repos[run.at]), Concat(run.pages))
    /\ run.pc \in {"getRepositoryImages", "range"} =>
          /\ Len(run.perRepo) = run.i - 1
          /\ run.i <= Len(run.repos)
    /\ (run.pc \in {"finalize", "done"} /\ ~run.listErr) =>
          Len(run.perRepo) = Len(run.repos)

\* The scenario of the specification: the fetch of the first repository failed,
\* the second one was fetched and got the samples of its image.
C2_Witness ==
    /\ run.pc = "done"
    /\ Len(run.perRepo) = 2
    /\ run.perRepo[1].fetch = "err"
    /\ run.perRepo[2].fetch = "ok"
    /\ Len(Segment(run, 2)) > 1

(***************************************************************************)
(* C3: a record of the list of repositories that lacks its name or its URI *)
(* is skipped: the turn of the loop for it adds exactly 1 to the error     *)
(* counter, pushes nothing and starts no listing of images, and the scrape *)
(* goes on to the remaining records and to its final metrics; with a       *)
(* client that is there, nothing else can stop a scrape.                   *)
(***************************************************************************)
C3_MalformedSkipped ==
    /\ client # NIL => run.pc # "panicked"
    /\ \A k \in 1..Len(run.perRepo) :
          ~Valid(run.repos[k]) =>
              /\ run.perRepo[k].errors = 1
              /\ run.perRepo[k].from = run.perRepo[k].to
              /\ run.perRepo[k].fetch = "none"
    /\ run.pc = "getRepositoryImages" => Valid(run.repos[run.i])

\* The part of C3 that the code keeps: a record that has its name and lacks
\* its URI is skipped with one error and no sample, and the scrape goes on.
C3_MissingUriSkipped ==
    /\ run.pc = "done"
    /\ Len(run.repos) = 2
    /\ run.repos[1].RepositoryUri = NIL
    /\ run.perRepo[1] = [from |-> 1, to |-> 1, errors |-> 1, fetch |-> "none"]
    /\ run.perRepo[2].fetch = "ok"

(***************************************************************************)
(* C4: a collector built with a nil client does not crash on Collect: the  *)
(* scrape goes as if DescribeRepositories had failed, pushing a            *)
(* repository-count of 0, a scrape-error-count of 1 and the duration.      *)
(***************************************************************************)
C4_NilClientIsListFailure ==
    (client = NIL /\ run.pc \notin {"idle", "getAllRepositories"}) =>
        /\ run.pc \in {"finalize", "done"}
        /\ run.errorCount = 1
        /\ run.ch[1] = Metric("repoCount", Float64(0), <<>>)
        /\ run.pc = "done" =>
              /\ Len(run.ch) = 3
              /\ run.ch[2] = Metric("scrapeErrors", Float64(1), <<>>)
              /\ run.ch[3].desc = "scrapeDuration"

(***************************************************************************)
(* C5: in a listing (of the repositories, or of the images of one          *)
(* repository) no call of which fails, the first call passes no token and  *)
(* every later call passes the token of the page before it; a page with a  *)
(* token is followed by another call and a page without one ends the       *)
(* listing, so that there is exactly one call per page; and the listing    *)
(* returns the records of all its pages, in their order.                   *)
(***************************************************************************)
C5_Pagination ==
    LET n == Len(run.pages)
        running == run.pc \in {"getAllRepositories", "getRepositoryImages"}
        noFailure == \A j \in 1..n : ~run.pages[j].err
    IN  /\ Len(run.calls) = n
        /\ \A j \in 1..n :
              run.calls[j].NextToken = IF j = 1 THEN NIL ELSE run.pages[j - 1].NextToken
        /\ \A j \in 1..(n - 1) : ~run.pages[j].err /\ run.pages[j].NextToken # NIL
        /\ (running /\ n > 0) => (~LastPage(run).err /\ LastPage(run).NextToken # NIL)
        /\ (~running /\ n > 0) => (LastPage(run).err \/ LastPage(run).NextToken = NIL)
        /\ run.op = "DescribeImages" =>
              \A j \in 1..n :
                  run.calls[j].RepositoryName = run.repos[run.at].RepositoryName
        /\ (run.pc = "getAllRepositories" /\ noFailure) => run.allRepos = Concat(run.pages)
        /\ (run.pc = "getRepositoryImages" /\ noFailure) => run.allImages = Concat(run.pages)
        /\ (~running /\ run.op = "DescribeRepositories" /\ noFailure) =>
              run.repos = Concat(run.pages)
        /\ (~running /\ run.op = "DescribeImages" /\ noFailure) =>
              run.images = Concat(run.pages)

\* A listing of images of two pages with a record on each has returned.
C5_Witness ==
    /\ run.op = "DescribeImages"
    /\ run.pc = "done"
    /\ Len(run.pages) = 2
    /\ ~run.pages[2].err
    /\ Len(run.pages[1].records) = 1
    /\ Len(run.pages[2].records) = 1
    /\ run.pages[1].records # run.pages[2].records
    /\ run.images = run.pages[1].records \o run.pages[2].records

(***************************************************************************)
(* C6: when the call for a page of a listing fails, the listing makes no   *)
(* further call and returns no record: the records of the pages fetched    *)
(* before are not returned and show in no sample.                          *)
(***************************************************************************)
C6_FailureDiscardsPages ==
    (run.pages # <<>> /\ LastPage(run).err) =>
        /\ run.pc \notin {"getAllRepositories", "getRepositoryImages"}
        /\ \A j \in 1..(Len(run.pages) - 1) : ~run.pages[j].err
        /\ run.allRepos = <<>>
        /\ run.allImages = <<>>
        /\ run.op = "DescribeRepositories" =>
              /\ run.repos = <<>>
              /\ run.ch[1] = Metric("repoCount", Float64(0), <<>>)
              /\ Samples(run.ch, PerRepoDescs) = <<>>
        /\ run.op = "DescribeImages" =>
              /\ run.images = <<>>
              /\ Len(run.perRepo) >= run.at
              /\ Segment(run, run.at) =
                    << Metric("imageCount", Float64(0), Labels(run.repos[run.at])) >>

\* The second page of a listing of images failed after the first page had
\* brought a record.
C6_Witness ==
    /\ run.op = "DescribeImages"
    /\ run.pc = "done"
    /\ Len(run.pages) = 2
    /\ run.pages[1].records # <<>>
    /\ run.pages[2].err

(***************************************************************************)
(* Vocabulary of the aggregation: the images that report a field, and the  *)
(* exact sum, the least and the greatest of the values they report.        *)
(***************************************************************************)
Present(images, field) == {j \in 1..Len(images) : images[j][field] # NIL}

ValuesOf(images, field) == {Deref(images[j][field]) : j \in Present(images, field)}

RECURSIVE SumOf(_, _, _)
SumOf(images, field, n) ==
    IF n = 0 THEN 0
    ELSE SumOf(images, field, n - 1)
         + (IF images[n][field] # NIL THEN Deref(images[n][field]) ELSE 0)

Least(S) == CHOOSE x \in S : \A y \in S : x <= y

Greatest(S) == CHOOSE x \in S : \A y \in S : y <= x

\* A listing of images has returned a non-empty list for repos[at].
Fetched ==
    /\ run.op = "DescribeImages"
    /\ Len(run.perRepo) >= run.at
    /\ ~LastPage(run).err
    /\ run.images # <<>>

(***************************************************************************)
(* C7: for every non-empty list of images, whatever sizes (any int64) are  *)
(* present or absent: with a present size, size-min, size-max and size-avg *)
(* are pushed and are the least, the greatest, and the sum of the present  *)
(* sizes over their number, so that min <= avg <= max; with no present     *)
(* size none of the three is pushed.                                       *)
(***************************************************************************)
C7_SizeStatistics ==
    Fetched =>
        LET labels == Labels(run.repos[run.at])
            sizes == ValuesOf(run.images, "ImageSizeInBytes")
            count == Cardinality(Present(run.images, "ImageSizeInBytes"))
            sum == SumOf(run.images, "ImageSizeInBytes", Len(run.images))
            got == Samples(Segment(run, run.at),
                           {"imageSizeMin", "imageSizeMax", "imageSizeAvg"})
        IN  IF count = 0 THEN got = <<>>
            ELSE /\ Len(got) = 3
                 /\ got[1] = Metric("imageSizeMin", Float64(Least(sizes)), labels)
                 /\ got[2] = Metric("imageSizeMax", Float64(Greatest(sizes)), labels)
                 /\ got[3].desc = "imageSizeAvg"
                 /\ got[3].labels = labels
                 /\ got[3].value.den > 0
                 /\ got[3].value.num * count = sum * got[3].value.den
                 /\ Least(sizes) * got[3].value.den <= got[3].value.num
                 /\ got[3].value.num <= Greatest(sizes) * got[3].value.den

\* The part of C7 that the code keeps: two different sizes whose sum fits an
\* int64.
C7_SizesWithinRange ==
    /\ Fetched
    /\ Len(run.images) = 2
    /\ Cardinality(ValuesOf(run.images, "ImageSizeInBytes")) = 2
    /\ SumOf(run.images, "ImageSizeInBytes", 2) <= MaxInt64
    /\ C7_SizeStatistics

(***************************************************************************)
(* C8: for every non-empty list of images, whatever push timestamps (any   *)
(* time.Time) are present or absent: latest-push is pushed if and only if  *)
(* some image reports a push timestamp, and is the greatest of those       *)
(* present; the same for the pull timestamps, independently.               *)
(***************************************************************************)
C8_LatestTimestamps ==
    Fetched =>
        LET labels == Labels(run.repos[run.at])
            pushes == ValuesOf(run.images, "ImagePushedAt")
            pulls == ValuesOf(run.images, "LastRecordedPullTime")
        IN  /\ Samples(Segment(run, run.at), {"latestPushTime"}) =
                  IF pushes = {} THEN <<>>
                  ELSE << Metric("latestPushTime", Float64(Unix(Greatest(pushes))), labels) >>
            /\ Samples(Segment(run, run.at), {"latestPullTime"}) =
                  IF pulls = {} THEN <<>>
                  ELSE << Metric("latestPullTime", Float64(Unix(Greatest(pulls))), labels) >>

\* The part of C8 that the code keeps: a push timestamp after the zero time
\* is present, no pull timestamp is.
C8_PushAfterZeroTime ==
    /\ Fetched
    /\ \E t \in ValuesOf(run.images, "ImagePushedAt") : After(t, ZeroTime)
    /\ ValuesOf(run.images, "LastRecordedPullTime") = {}
    /\ Len(run.images) = 2
    /\ C8_LatestTimestamps

(***************************************************************************)
(* C9: every scrape, whatever failure of the listing of repositories,      *)
(* malformed records and failed fetches of images it meets, returns        *)
(* without a panic, and pushes exactly one scrape-error-count and then     *)
(* exactly one scrape-duration, after all its other samples.               *)
(***************************************************************************)
C9_AlwaysFinalMetrics ==
    /\ client # NIL => run.pc # "panicked"
    /\ run.pc = "done" =>
          /\ Len(run.ch) >= 2
          /\ run.ch[Len(run.ch) - 1].desc = "scrapeErrors"
          /\ run.ch[Len(run.ch)].desc = "scrapeDuration"
          /\ Len(Samples(run.ch, {"scrapeErrors", "scrapeDuration"})) = 2
    /\ run.pc # "done" => Samples(run.ch, {"scrapeErrors", "scrapeDuration"}) = <<>>

(***************************************************************************)
(* C10: the error counter starts at zero in every scrape, and the          *)
(* scrape-error-count pushed at the end of a scrape is 1 if the listing of *)
(* repositories failed, and otherwise the number of records without name   *)
(* or URI plus the number of repositories whose listing of images failed.  *)
(***************************************************************************)
C10_ErrorCount ==
    LET malformed == {k \in 1..Len(run.repos) : ~Valid(run.repos[k])}
        failed == {k \in 1..Len(run.perRepo) : run.perRepo[k].fetch = "err"}
        expected == IF run.listErr THEN 1
                    ELSE Cardinality(malformed) + Cardinality(failed)
    IN  /\ (run.pc = "getAllRepositories" /\ run.calls = <<>>) => run.errorCount = 0
        /\ (client # NIL /\ run.pc \in {"done", "panicked"}) =>
              Samples(run.ch, {"scrapeErrors"}) =
                  << Metric("scrapeErrors", Float64(expected), <<>>) >>

(***************************************************************************)
(* Scrapes one after the other against a registry that does not change:    *)
(* its answer to a request is chosen when the request is made first and is *)
(* the same ever after.  last keeps the samples of the scrape before.      *)
(***************************************************************************)
Request(op, input) == [op |-> op, input |-> input]

\* The frame r, for a registry that has n records less to return.
Less(r, n) == [r EXCEPT !.served = @ + n]

\* The answers to a request: the one it got before, or else any of fresh.
\* The registry of these scrapes holds MaxRecords - 1 records.
Answers(req, fresh) == IF req \in DOMAIN tape THEN {tape[req]} ELSE fresh

\* The samples of a scrape with the value of the scrape duration left out.
WithoutDuration(ch) ==
    [k \in DOMAIN ch |-> IF ch[k].desc = "scrapeDuration"
                         THEN [ch[k] EXCEPT !.value = Float64(0)]
                         ELSE ch[k]]

AgainCollect ==
    /\ run.pc \in {"idle", "done"}
    /\ run' = CollectEnter(run)
    /\ last' = IF run.pc = "done" THEN WithoutDuration(run.ch) ELSE last
    /\ UNCHANGED <<client, peer, tape, http>>

AgainDescribeRepositories ==
    /\ run.pc = "getAllRepositories"
    /\ client # NIL
    /\ LET req == Request("DescribeRepositories", DescribeRepositoriesInput(run))
       IN  \E resp \in Answers(req, RepoResponses(Less(run, 1))) :
               /\ run' = GetAllRepositoriesStep(run, resp)
               /\ tape' = (req :> resp) @@ tape
    /\ UNCHANGED <<client, peer, last, http>>

AgainDescribeImages ==
    /\ run.pc = "getRepositoryImages"
    /\ client # NIL
    /\ LET req == Request("DescribeImages", DescribeImagesInput(run))
       IN  \E resp \in Answers(req, ImageResponses(Less(run, 1))) :
               /\ run' = GetRepositoryImagesStep(run, resp)
               /\ tape' = (req :> resp) @@ tape
    /\ UNCHANGED <<client, peer, last, http>>

NextAgain ==
    \/ AgainCollect
    \/ AgainDescribeRepositories
    \/ NilClient
    \/ Range
    \/ AgainDescribeImages
    \/ SendFinal

SpecAgain == Init /\ [][NextAgain]_vars

(***************************************************************************)
(* C11: a scrape reads nothing that the scrape before it wrote.  Every     *)
(* invocation of Collect starts from the same frame, and against a         *)
(* registry that does not change, a scrape pushes the samples that the     *)
(* scrape before it pushed, in the same order, with the same values and    *)
(* labels, the value of the scrape duration apart.                         *)
(***************************************************************************)
C11_Idempotent ==
    /\ (run.pc = "getAllRepositories" /\ run.calls = <<>>) => run = CollectEnter(NewFrame)
    /\ (run.pc = "done" /\ last # <<>>) => WithoutDuration(run.ch) = last

\* A second scrape has ended that counted an error and pushed the metrics
\* of a repository.
C11_Witness ==
    /\ run.pc = "done"
    /\ last # <<>>
    /\ run.errorCount > 0
    /\ Samples(run.ch, {"imageCount"}) # <<>>

(***************************************************************************)
(* Two invocations of Collect on one collector at the same time, each with *)
(* its own sink: run and peer are their frames, and their steps            *)
(* interleave.  A panic ends the process, so both invocations stop.  The   *)
(* registry returns MaxRecords - 2 records to the two together.            *)
(***************************************************************************)
Invocations == {"run", "peer"}

Frame(p) == IF p = "run" THEN run ELSE peer

Other(p) == IF p = "run" THEN peer ELSE run

\* A variant of Locals in which the error counter is one variable that the
\* invocations share: a step finds in it what the other invocation left.
LocalsSharedCount(own, other) == [own EXCEPT !.errorCount = other.errorCount]

\* What a step of an invocation works on: errorCount, start, ctx and the
\* lists are variables of the invocation, the collector holds none of them.
Locals(own, other) == own

\* The frame of an invocation, for the registry: the records it returned to
\* the other invocation are returned to it.
Together(own, other) == Less(own, other.served + 2)

Running == run.pc # "panicked" /\ peer.pc # "panicked"

\* Invocation p goes on to frame f.
Becomes(p, f) ==
    /\ run' = IF p = "run" THEN f ELSE run
    /\ peer' = IF p = "peer" THEN f ELSE peer
    /\ UNCHANGED <<client, tape, last, http>>

BothCollect ==
    \E p \in Invocations :
        /\ Running
        /\ Frame(p).pc \in {"idle", "done"}
        /\ Becomes(p, CollectEnter(Locals(Frame(p), Other(p))))

BothDescribeRepositories ==
    \E p \in Invocations :
        /\ Running
        /\ Frame(p).pc = "getAllRepositories"
        /\ client # NIL
        /\ \E resp \in RepoResponses(Together(Frame(p), Other(p))) :
               Becomes(p, GetAllRepositoriesStep(Locals(Frame(p), Other(p)), resp))

BothNilClient ==
    \E p \in Invocations :
        /\ Running
        /\ Frame(p).pc \in {"getAllRepositories", "getRepositoryImages"}
        /\ client = NIL
        /\ Becomes(p, [Frame(p) EXCEPT !.pc = "panicked"])

BothRange ==
    \E p \in Invocations :
        /\ Running
        /\ Frame(p).pc = "range"
        /\ Becomes(p, RangeStep(Locals(Frame(p), Other(p))))

BothDescribeImages ==
    \E p \in Invocations :
        /\ Running
        /\ Frame(p).pc = "getRepositoryImages"
        /\ client # NIL
        /\ \E resp \in ImageResponses(Together(Frame(p), Other(p))) :
               Becomes(p, GetRepositoryImagesStep(Locals(Frame(p), Other(p)), resp))

BothSendFinal ==
    \E p \in Invocations :
        /\ Running
        /\ Frame(p).pc = "finalize"
        /\ \E elapsed \in Seconds :
               Becomes(p, Finalize(Locals(Frame(p), Other(p)), elapsed))

NextBoth ==
    \/ BothCollect
    \/ BothDescribeRepositories
    \/ BothNilClient
    \/ BothRange
    \/ BothDescribeImages
    \/ BothSendFinal

SpecBoth == Init /\ [][NextBoth]_vars

\* An invocation running alone goes from frame f to frame g, given the
\* answer of the remote that g records when the step is a remote call.
Alone(f, g) ==
    CASE f.pc \in {"idle", "done"} -> g = CollectEnter(f)
      [] f.pc = "getAllRepositories" ->
            IF client = NIL THEN g = [f EXCEPT !.pc = "panicked"]
            ELSE g.pages # <<>> /\ g = GetAllRepositoriesStep(f, LastPage(g))
      [] f.pc = "range" -> g = RangeStep(f)
      [] f.pc = "getRepositoryImages" ->
            IF client = NIL THEN g = [f EXCEPT !.pc = "panicked"]
            ELSE g.pages # <<>> /\ g = GetRepositoryImagesStep(f, LastPage(g))
      [] f.pc = "finalize" -> \E elapsed \in Seconds : g = Finalize(f, elapsed)
      [] OTHER -> FALSE

\* The failures of the remote calls of the invocation with frame f, and the
\* records without name or URI that it skipped.
OwnFailures(f) ==
    (IF f.listErr THEN 1 ELSE 0)
    + Cardinality({k \in DOMAIN f.perRepo :
                      f.perRepo[k].fetch = "err" \/ ~Valid(f.repos[k])})

OwnCount(f) ==
    /\ f.errorCount = OwnFailures(f)
    /\ f.pc = "done" =>
          f.ch[Len(f.ch) - 1] = Metric("scrapeErrors", Float64(OwnFailures(f)), <<>>)

(***************************************************************************)
(* C12: when two invocations of Collect run at the same time, under every  *)
(* interleaving every step of an invocation is a step that the invocation  *)
(* takes when it runs alone, so it pushes to its sink what it pushes       *)
(* alone, and the error counter of each and the scrape-error-count that    *)
(* each pushes are the number of its own failures.                         *)
(***************************************************************************)
C12_OwnLocals ==
    [][/\ \A p \in Invocations : Frame(p)' # Frame(p) => Alone(Frame(p), Frame(p)')
       /\ OwnCount(run)'
       /\ OwnCount(peer)']_vars

\* Both invocations are under way, one has counted an error and the other
\* counts none while it lists the images of a repository.
C12_Witness ==
    /\ run.pc = "getRepositoryImages"
    /\ run.errorCount = 0
    /\ peer.pc = "finalize"
    /\ peer.errorCount = 1

(***************************************************************************)
(* A scrape whose deadline passes: every remote call that is given ctx     *)
(* from then on fails.                                                     *)
(***************************************************************************)
Deadline ==
    /\ run.pc \in {"getAllRepositories", "range", "getRepositoryImages"}
    /\ ~run.deadline
    /\ run' = [run EXCEPT !.deadline = TRUE,
                          !.fired = Ptr([pc |-> run.pc, i |-> run.i, ch |-> run.ch,
                                         errorCount |-> run.errorCount])]
    /\ UNCHANGED <<client, peer, tape, last, http>>

NextDeadline ==
    \/ Collect
    \/ DescribeRepositories
    \/ NilClient
    \/ Range
    \/ DescribeImages
    \/ SendFinal
    \/ Deadline

SpecDeadline == Init /\ [][NextDeadline]_vars

\* What the claim C13 holds of a scrape whose deadline has passed, the end
\* of the scrape apart.
AfterDeadline(r) ==
    LET f == Deref(r.fired)
    IN  /\ SubSeq(r.ch, 1, Len(f.ch)) = f.ch
        /\ (f.pc = "getAllRepositories" /\ r.pc \in {"finalize", "done"}) =>
              /\ r.listErr
              /\ r.ch[Len(f.ch) + 1] = Metric("repoCount", Float64(0), <<>>)
              /\ r.errorCount = f.errorCount + 1
              /\ r.perRepo = <<>>
        /\ f.pc \in {"range", "getRepositoryImages"} =>
              \A k \in DOMAIN r.perRepo :
                  (k >= f.i /\ Valid(r.repos[k])) =>
                      /\ r.perRepo[k].fetch = "err"
                      /\ r.perRepo[k].errors = 1
                      /\ Segment(r, k) = << Metric("imageCount", Float64(0),
                                                   Labels(r.repos[k])) >>
        /\ r.pc = "done" =>
              /\ f.pc # "getAllRepositories" => Len(r.perRepo) = Len(r.repos)
              /\ r.ch[Len(r.ch) - 1] = Metric("scrapeErrors", Float64(r.errorCount), <<>>)
              /\ r.ch[Len(r.ch)].desc = "scrapeDuration"

(***************************************************************************)
(* C13: one context governs the scrape.  When its deadline passes in the   *)
(* middle of a scrape, the samples pushed before are kept; a listing of    *)
(* repositories under way fails, with repository-count 0 and one error; in *)
(* the loop over the repositories the one under way and every valid one    *)
(* after it get image-count 0 and one error each; and the scrape goes on   *)
(* to its end, where it pushes the error count and the duration.           *)
(***************************************************************************)
C13_Deadline ==
    (run.deadline /\ client # NIL) =>
        /\ AfterDeadline(run)
        /\ run.pc # "panicked"

\* A deadline that passed while the images of the first of two valid
\* repositories were listed; the scrape has ended.
C13_Witness ==
    /\ run.pc = "done"
    /\ run.deadline
    /\ Deref(run.fired).pc = "getRepositoryImages"
    /\ Deref(run.fired).i = 1
    /\ Len(run.repos) = 2
    /\ \A k \in 1..2 : Valid(run.repos[k])

(***************************************************************************)
(* The descriptors of the collector.                                       *)
(***************************************************************************)
namespace == "ecr"

\* prometheus.BuildFQName: the parts that are not empty, joined by "_".
BuildFQName(ns, subsystem, name) ==
    SelectSeq(<<ns, subsystem, name>>, LAMBDA part : part # "")

NewDesc(fqName, variableLabels) == [fqName |-> fqName, variableLabels |-> variableLabels]

RepositoryLabels == <<"repository_name", "repository_uri">>

\* The descriptors that NewECRCollector puts in the fields of the collector.
NewECRCollector ==
    [repoCount      |-> NewDesc(BuildFQName(namespace, "", "repositories_total"), <<>>),
     imageCount     |-> NewDesc(BuildFQName(namespace, "", "images_total"), RepositoryLabels),
     imageSizeMax   |-> NewDesc(BuildFQName(namespace, "", "image_size_max_bytes"), RepositoryLabels),
     imageSizeMin   |-> NewDesc(BuildFQName(namespace, "", "image_size_min_bytes"), RepositoryLabels),
     imageSizeAvg   |-> NewDesc(BuildFQName(namespace, "", "image_size_avg_bytes"), RepositoryLabels),
     latestPushTime |-> NewDesc(BuildFQName(namespace, "", "latest_push_timestamp"), RepositoryLabels),
     latestPullTime |-> NewDesc(BuildFQName(namespace, "", "latest_pull_timestamp"), RepositoryLabels),
     scrapeErrors   |-> NewDesc(BuildFQName(namespace, "", "scrape_errors_total"), <<>>),
     scrapeDuration |-> NewDesc(BuildFQName(namespace, "", "scrape_duration_seconds"), <<>>)]

\* The fields whose descriptors Describe sends, in the order it sends them.
Describe ==
    << "repoCount", "imageCount", "imageSizeMax", "imageSizeMin", "imageSizeAvg",
       "latestPushTime", "latestPullTime", "scrapeErrors", "scrapeDuration" >>

Described == {Describe[k] : k \in DOMAIN Describe}

(***************************************************************************)
(* C14: Describe sends 9 descriptors, no two with the same name:           *)
(* repository count, scrape errors and scrape duration without labels, the *)
(* six metrics of a repository with the labels repository_name and         *)
(* repository_uri.  Every sample that Collect pushes is of one of these    *)
(* descriptors and carries one value for each label of its descriptor, the *)
(* name and the URI of a repository of the list.                           *)
(***************************************************************************)
C14_Descriptors ==
    /\ Len(Describe) = 9
    /\ Cardinality({NewECRCollector[d].fqName : d \in Described}) = 9
    /\ \A d \in Described :
          NewECRCollector[d].variableLabels =
              IF d \in {"repoCount", "scrapeErrors", "scrapeDuration"}
              THEN <<>> ELSE RepositoryLabels
    /\ PerRepoDescs = Described \ {"repoCount", "scrapeErrors", "scrapeDuration"}
    /\ \A k \in DOMAIN run.ch :
          /\ run.ch[k].desc \in Described
          /\ Len(run.ch[k].labels) = Len(NewECRCollector[run.ch[k].desc].variableLabels)
          /\ run.ch[k].labels # <<>> =>
                \E j \in DOMAIN run.repos :
                    Valid(run.repos[j]) /\ run.ch[k].labels = Labels(run.repos[j])

\* A scrape has pushed samples of all 9 descriptors, one of them the image
\* count of a repository whose fetch failed.
C14_Witness ==
    /\ run.pc = "done"
    /\ {run.ch[k].desc : k \in DOMAIN run.ch} = Described
    /\ run.errorCount > 0

(***************************************************************************)
(* The health handler.  A request has a method, at most one Accept header  *)
(* and at most one query parameter format; the response writer keeps the   *)
(* headers, the status and the body that are sent.                         *)
(***************************************************************************)
StatusOK == 200

Methods == {"GET", "HEAD", "POST"}

AcceptValues ==
    {"", "application/json", "Application/JSON", "application/json, text/html",
     "application/json; charset=utf-8", "text/html", "*/*"}

FormatValues == {"", "json", "JSON", "html", "yaml"}

Requests ==
    [Method : Methods,
     Accept : {NIL} \cup {Ptr(v) : v \in AcceptValues},
     format : {NIL} \cup {Ptr(v) : v \in FormatValues}]

\* r.Header.Get(key), r.URL.Query().Get(key): "" when the key is absent.
Get(values) == IF values = NIL THEN "" ELSE Deref(values)

\* getHealthStatus, given what the runtime reports.
getHealthStatus(uptime, goroutines) ==
    [Status |-> "OK", Uptime |-> uptime, Goroutines |-> goroutines]

HealthStatuses ==
    {getHealthStatus(uptime, goroutines) : uptime \in {"1s", "2m0s"}, goroutines \in {4, 9}}

\* json.NewEncoder(w).Encode(health): the fields under their json tags.
Encode(health) ==
    [json |-> << <<"status", health.Status>>, <<"uptime", health.Uptime>>,
                 <<"goroutines", health.Goroutines>> >>]

\* fmt.Sprintf of the page, with the values it shows.
Html(health) == [html |-> <<health.Uptime, health.Goroutines>>]

\* json.Unmarshal into HealthStatus: the value under tag, the zero value
\* when the tag is absent.
Field(pairs, tag, zero) ==
    IF \E k \in DOMAIN pairs : pairs[k][1] = tag
    THEN pairs[CHOOSE k \in DOMAIN pairs : pairs[k][1] = tag][2]
    ELSE zero

Decode(body) ==
    IF "json" \in DOMAIN body
    THEN [err |-> FALSE,
          Status |-> Field(body.json, "status", ""),
          Uptime |-> Field(body.json, "uptime", ""),
          Goroutines |-> Field(body.json, "goroutines", 0)]
    ELSE [err |-> TRUE, Status |-> "", Uptime |-> "", Goroutines |-> 0]

\* http.ResponseWriter: headers set after the status was written are not
\* sent, and the first status written is the status.
NewResponseWriter == [header |-> [ContentType |-> ""], wroteHeader |-> FALSE,
                      status |-> 0, body |-> <<>>]

HeaderSet(w, value) ==
    IF w.wroteHeader THEN w ELSE [w EXCEPT !.header.ContentType = value]

WriteHeader(w, code) ==
    IF w.wroteHeader THEN w ELSE [w EXCEPT !.wroteHeader = TRUE, !.status = code]

Write(w, data) == [WriteHeader(w, StatusOK) EXCEPT !.body = Append(@, data)]

\* A variant of healthHandler that looks at the Accept header only.
healthHandlerAcceptOnly(w, r, health) ==
    IF Get(r.Accept) = "application/json"
    THEN Write(WriteHeader(HeaderSet(w, "application/json"), StatusOK), Encode(health))
    ELSE Write(WriteHeader(HeaderSet(w, "text/html"), StatusOK), Html(health))

healthHandler(w, r, health) ==
    IF Get(r.Accept) = "application/json" \/ Get(r.format) = "json"
    THEN Write(WriteHeader(HeaderSet(w, "application/json"), StatusOK), Encode(health))
    ELSE Write(WriteHeader(HeaderSet(w, "text/html"), StatusOK), Html(health))

\* The server answers a request to /health.
ServeHealth ==
    /\ \E r \in Requests, health \in HealthStatuses :
           http' = << [request |-> r,
                       response |-> healthHandler(NewResponseWriter, r, health)] >>
    /\ UNCHANGED <<client, run, peer, tape, last>>

NextHealth == ServeHealth

SpecHealth == Init /\ [][NextHealth]_vars

(***************************************************************************)
(* C15: the health handler answers every request with status 200.  When    *)
(* the Accept header is "application/json", or the query parameter format  *)
(* is "json", the content type of the response is application/json and its *)
(* body decodes to a health record with status "OK"; for every other       *)
(* request the content type is text/html.                                  *)
(***************************************************************************)
C15_Health ==
    http # <<>> =>
        LET r == http[1].request
            w == http[1].response
        IN  /\ w.status = 200
            /\ IF r.Accept = Ptr("application/json") \/ r.format = Ptr("json")
               THEN /\ w.header.ContentType = "application/json"
                    /\ Len(w.body) = 1
                    /\ ~Decode(w.body[1]).err
                    /\ Decode(w.body[1]).Status = "OK"
               ELSE w.header.ContentType = "text/html"

\* A request with another Accept header and format=json was answered.
C15_Witness ==
    /\ http # <<>>
    /\ http[1].request.Accept = Ptr("text/html")
    /\ http[1].request.format = Ptr("json")
    /\ http[1].response.status = 200

(***************************************************************************)
(* C16: at the end of a scrape whose listing of repositories succeeded,    *)
(* the repository count is the length of the list, records without name or *)
(* URI included, and every record of the list has either exactly one image *)
(* count with its name and URI, or lacks a name or URI and has added one   *)
(* error; so the image counts and the malformed records add up to the      *)
(* repository count, and a repository whose fetch failed has an image      *)
(* count of 0 and one error.                                               *)
(***************************************************************************)
Malformed(repos) == {k \in DOMAIN repos : ~Valid(repos[k])}

PerRecord(r) ==
    /\ r.ch[1] = Metric("repoCount", Float64(Len(r.repos)), <<>>)
    /\ Len(r.perRepo) = Len(r.repos)
    /\ \A k \in DOMAIN r.perRepo :
          IF Valid(r.repos[k])
          THEN /\ Len(Samples(Segment(r, k), {"imageCount"})) = 1
               /\ \A j \in DOMAIN Segment(r, k) :
                     Segment(r, k)[j].labels = Labels(r.repos[k])
               /\ r.perRepo[k].errors = IF r.perRepo[k].fetch = "err" THEN 1 ELSE 0
               /\ r.perRepo[k].fetch = "err" =>
                     Segment(r, k) = << Metric("imageCount", Float64(0),
                                               Labels(r.repos[k])) >>
          ELSE /\ Segment(r, k) = <<>>
               /\ r.perRepo[k].errors = 1
    /\ Len(Samples(r.ch, {"imageCount"})) + Cardinality(Malformed(r.repos))
          = Len(r.repos)

C16_PerRecord ==
    (run.pc \in {"done", "panicked"} /\ run.ch # <<>> /\ ~run.listErr) => PerRecord(run)

\* A scrape that returned with a repository whose fetch failed, a record
\* without URI and a third record.
C16_Returned ==
    /\ run.pc = "done"
    /\ Len(run.repos) = 3
    /\ \E k \in DOMAIN run.repos : run.perRepo[k].fetch = "err"
    /\ Malformed(run.repos) # {}

(***************************************************************************)
(* C17: when the listing of the images of a repository succeeds, it adds   *)
(* no error, and the image count of the repository is the number of images *)
(* of all its pages, those without size and timestamps included; when that *)
(* number is 0, the image count is 0 and it is the only sample of the      *)
(* repository.                                                             *)
(***************************************************************************)
C17_ImageCount ==
    \A k \in DOMAIN run.perRepo :
        run.perRepo[k].fetch = "ok" =>
            /\ run.perRepo[k].errors = 0
            /\ Segment(run, k) # <<>>
            /\ Segment(run, k)[1].desc = "imageCount"
            /\ Segment(run, k)[1].labels = Labels(run.repos[k])
            /\ k = run.at =>
                  /\ run.images = Concat(run.pages)
                  /\ Segment(run, k)[1].value = Float64(Len(Concat(run.pages)))
            /\ Segment(run, k)[1].value = Float64(0) => Len(Segment(run, k)) = 1

\* A listing of two pages succeeded; one of its two images reports neither
\* size nor timestamps.
C17_Witness ==
    /\ run.op = "DescribeImages"
    /\ Len(run.perRepo) = run.at
    /\ run.perRepo[run.at].fetch = "ok"
    /\ Len(run.pages) = 2
    /\ Len(run.images) = 2
    /\ \E j \in DOMAIN run.images :
          run.images[j] = [ImageSizeInBytes |-> NIL, ImagePushedAt |-> NIL,
                           LastRecordedPullTime |-> NIL]

(***************************************************************************)
(* C18: the samples are pushed in a fixed order.  The repository count is  *)
(* pushed before any listing of images is called; the loop takes the       *)
(* repositories one at a time, in the order in which the listing returned  *)
(* them; the samples of a repository are its image count first and then    *)
(* its sizes and timestamps; and when the listing of the images of a       *)
(* repository is called, the samples of every repository before it, and    *)
(* no other, have been pushed.                                             *)
(***************************************************************************)
C18_Order ==
    /\ (run.op = "DescribeRepositories" /\ run.pc \in {"range", "finalize"}
          /\ ~run.listErr) => run.repos = Concat(run.pages)
    /\ run.pc = "getRepositoryImages" =>
          /\ run.ch[1].desc = "repoCount"
          /\ run.at = run.i
          /\ Len(run.perRepo) = run.i - 1
          /\ Len(run.ch) = IF run.i = 1 THEN 1 ELSE run.perRepo[run.i - 1].to
          /\ \A c \in DOMAIN run.calls :
                run.calls[c].RepositoryName = run.repos[run.i].RepositoryName
    /\ run.pc = "range" => Len(run.perRepo) = run.i - 1
    /\ \A k \in DOMAIN run.perRepo :
          /\ run.perRepo[k].from = IF k = 1 THEN 1 ELSE run.perRepo[k - 1].to
          /\ run.perRepo[k].to <= Len(run.ch)
          /\ \A j \in DOMAIN Segment(run, k) :
                /\ Segment(run, k)[j].labels = Labels(run.repos[k])
                /\ Segment(run, k)[j].desc = "imageCount" <=> j = 1
    /\ run.pc = "done" =>
          Len(run.ch) = 2 + (IF run.perRepo = <<>> THEN 1
                             ELSE run.perRepo[Len(run.perRepo)].to)

\* The listing of the images of the second repository is about to be called
\* and the first repository has pushed sizes and timestamps.
C18_Witness ==
    /\ run.pc = "getRepositoryImages"
    /\ run.i = 2
    /\ Len(run.ch) > 3
    /\ run.repos[1].RepositoryName # run.repos[2].RepositoryName

(***************************************************************************)
(* A scrape that is under way goes on: Collect runs to its end once it is  *)
(* invoked, every remote call returns and the sink takes every sample.     *)
(* Nothing makes the registry of Prometheus invoke Collect again, and the  *)
(* deadline of a scrape may pass or not.  The registry of these scrapes    *)
(* holds MaxRecords - 2 records.                                           *)
(***************************************************************************)
LiveDescribeRepositories ==
    /\ run.pc = "getAllRepositories"
    /\ client # NIL
    /\ \E resp \in RepoResponses(Less(run, 2)) : run' = GetAllRepositoriesStep(run, resp)
    /\ UNCHANGED <<client, peer, tape, last, http>>

LiveDescribeImages ==
    /\ run.pc = "getRepositoryImages"
    /\ client # NIL
    /\ \E resp \in ImageResponses(Less(run, 2)) : run' = GetRepositoryImagesStep(run, resp)
    /\ UNCHANGED <<client, peer, tape, last, http>>

Step ==
    \/ LiveDescribeRepositories
    \/ NilClient
    \/ Range
    \/ LiveDescribeImages
    \/ SendFinal

NextLive ==
    \/ Collect
    \/ LiveDescribeRepositories
    \/ NilClient
    \/ Range
    \/ LiveDescribeImages
    \/ SendFinal
    \/ Deadline

SpecLive == Init /\ [][NextLive]_vars /\ WF_vars(Step)

\* The pagination loop of the listing under way has called pages and goes on.
InLoop(r) ==
    \/ r.op = "DescribeRepositories" /\ r.pc = "getAllRepositories"
    \/ r.op = "DescribeImages" /\ r.pc = "getRepositoryImages" /\ r.at = r.i

Paginating(r) ==
    r.pages # <<>> =>
        (InLoop(r) <=> (~LastPage(r).err /\ LastPage(r).NextToken # NIL))

(***************************************************************************)
(* C19: a pagination loop stops when, and only when, an answer carries no  *)
(* continuation token or a call fails, after however many pages; and when  *)
(* every listing comes to such an answer, every scrape comes to its end.   *)
(***************************************************************************)
C19_Terminates ==
    /\ [](client # NIL => Paginating(run))
    /\ (run.pc = "getAllRepositories") ~> (run.pc \in {"done", "panicked"})

\* A scrape has come to its end after a listing of as many pages as the
\* registry has.
C19_Witness ==
    /\ run.pc = "done"
    /\ run.op = "DescribeImages"
    /\ Len(run.pages) = MaxPages

====
